---- MODULE Spec2Model ----
(***************************************************************************)
(* The crossword layout engine (buildCrossword of the improved crossword   *)
(* service, src/unnamed/part_009 lines 218-758).                           *)
(*                                                                         *)
(* A string is a sequence of one-character strings, a JavaScript array is  *)
(* a sequence (array index k is sequence index k + 1), and the scratch     *)
(* grid is an array of row arrays.  One behaviour of the model is one call *)
(* of buildCrossword on an input list drawn from InputLists.               *)
(***************************************************************************)
EXTENDS Integers, Sequences, FiniteSets, TLC

VARIABLES
    questions,       \* the argument of buildCrossword
    pc,              \* position in buildCrossword
    words,           \* the candidate list (after map, filter and sort)
    attempt,         \* loop variable of the attempt loop
    grid,            \* scratch grid of the current attempt
    entries,         \* entries of the current attempt
    usedWords,       \* Set of words placed in the current attempt
    placedWords,     \* counter of the current attempt
    remainingWords,  \* words.slice(1), shuffled on attempts > 0
    i,               \* loop variable of the placement loop (0-based)
    bestCrossword,   \* best result so far, or Null
    bestScore,       \* score of bestCrossword, a fraction <<num, den>>
    outcome,         \* "running", "returned" or "thrown"
    returned,        \* the returned value, or Null
    thrown,          \* the message of the thrown Error, or "none"
    attemptLog,      \* history: one record per attempt that ended
    bestScratch,     \* history: the scratch grid and entries bestCrossword was built from
    earlier          \* history: how an earlier call on the same input ended, or Null

vars == <<questions, pc, words, attempt, grid, entries, usedWords, placedWords,
          remainingWords, i, bestCrossword, bestScore, outcome, returned,
          thrown, attemptLog, bestScratch, earlier>>

----------------------------------------------------------------------------
(* Characters and strings *)

Upper == <<"A","B","C","D","E","F","G","H","I","J","K","L","M",
           "N","O","P","Q","R","S","T","U","V","W","X","Y","Z">>
Lower == <<"a","b","c","d","e","f","g","h","i","j","k","l","m",
           "n","o","p","q","r","s","t","u","v","w","x","y","z">>

AZ == {Upper[k] : k \in 1..Len(Upper)}

\* String.prototype.toUpperCase on one character (ASCII)
toUpperCaseChar(ch) ==
    IF \E k \in 1..Len(Lower) : Lower[k] = ch
    THEN Upper[CHOOSE k \in 1..Len(Lower) : Lower[k] = ch]
    ELSE ch

toUpperCase(s) == [k \in 1..Len(s) |-> toUpperCaseChar(s[k])]

\* s.replace(/[^A-Z]/g, '')
RECURSIVE removeNonLetters(_)
removeNonLetters(s) ==
    IF s = <<>> THEN <<>>
    ELSE IF Head(s) \in AZ THEN <<Head(s)>> \o removeNonLetters(Tail(s))
    ELSE removeNonLetters(Tail(s))

\* the two calls of line 235 in the other order: the characters outside A-Z are
\* removed before the rest is uppercased
cleanAnswer_StripFirst(answer) == toUpperCase(removeNonLetters(answer))

\* q.answer.toUpperCase().replace(/[^A-Z]/g, '')
cleanAnswer(answer) == removeNonLetters(toUpperCase(answer))

\* /^[A-Z]+$/.test(word)
onlyLetters(word) == Len(word) >= 1 /\ \A k \in 1..Len(word) : word[k] \in AZ

----------------------------------------------------------------------------
(* Program constants *)

MinQuestions == 3
MinValidWords == 3
MinWordLength == 3
\* the threshold of line 350 off by one
MinPlacedWords_Two == 3 - 1
MinPlacedWords == 3
MinEntries == 3
\* an attempt loop that stops one attempt early
attempts_Two == 3 - 1
\* an attempt loop that runs one attempt more
attempts_Four == 3 + 1
attempts == 3
GridRows == 30
GridCols == 30
startingPositions ==
    << [row |-> 10, col |-> 10], [row |-> 5, col |-> 5], [row |-> 5, col |-> 15] >>

Null == [null |-> TRUE]
Empty == ""

----------------------------------------------------------------------------
(* The scratch grid *)

initializeEmptyGrid(rows, cols) == [r \in 1..rows |-> [c \in 1..cols |-> Empty]]

NumRows(g) == Len(g)
NumCols(g) == Len(g[1])
Cell(g, row, col) == g[row + 1][col + 1]

\* rowArr[col] = ch on a JavaScript array: an index past the end extends it
setIndex(rowArr, col, ch) ==
    IF col < Len(rowArr) THEN [rowArr EXCEPT ![col + 1] = ch]
    ELSE [k \in 1..(col + 1) |->
             IF k <= Len(rowArr) THEN rowArr[k]
             ELSE IF k = col + 1 THEN ch ELSE "undefined"]

\* placeWordInGrid throws a TypeError when it indexes a row that does not exist
placeWordThrows(g, word, placement) ==
    /\ placement.direction # "across"
    /\ placement.row + Len(word) > NumRows(g)

RECURSIVE placeLetters(_, _, _, _)
placeLetters(g, word, placement, k) ==
    IF k > Len(word) THEN g
    ELSE LET r == IF placement.direction = "across" THEN placement.row
                  ELSE placement.row + (k - 1)
             c == IF placement.direction = "across" THEN placement.col + (k - 1)
                  ELSE placement.col
         IN placeLetters([g EXCEPT ![r + 1] = setIndex(g[r + 1], c, word[k])],
                         word, placement, k + 1)

placeWordInGrid(g, word, placement) == placeLetters(g, word, placement, 1)

----------------------------------------------------------------------------
(* Validity of a placement *)

NoPlace == [canPlace |-> FALSE, intersections |-> 0]

\* canPlaceWordHorizontally without the test of lines 523-526: a cell that holds
\* another letter no longer rejects the placement
canPlaceWordHorizontally_NoConflictCheck(g, word, row, col) ==
    LET rows == NumRows(g)
        cols == NumCols(g)
        n == Len(word)
        line == g[row + 1]
        above(cc) == row > 0 /\ Cell(g, row - 1, cc) # Empty
        below(cc) == row < rows - 1 /\ Cell(g, row + 1, cc) # Empty
    IN IF col + n > cols THEN NoPlace
       ELSE IF col > 0 /\ line[col] # Empty THEN NoPlace
       ELSE IF col + n < cols /\ line[col + n + 1] # Empty THEN NoPlace
       ELSE IF \A k \in 1..n : line[col + k] # word[k] THEN NoPlace
       ELSE IF \E k \in 1..n :
                  /\ line[col + k] = Empty
                  /\ above(col + k - 1) \/ below(col + k - 1)
            THEN NoPlace
       ELSE LET intersections == Cardinality({k \in 1..n : line[col + k] = word[k]})
            IN [canPlace |-> intersections > 0, intersections |-> intersections]

\* canPlaceWordHorizontally without the test of lines 510-512: a letter right
\* after the end of the word no longer rejects the placement
canPlaceWordHorizontally_NoEndCheck(g, word, row, col) ==
    LET rows == NumRows(g)
        cols == NumCols(g)
        n == Len(word)
        line == g[row + 1]
        above(cc) == row > 0 /\ Cell(g, row - 1, cc) # Empty
        below(cc) == row < rows - 1 /\ Cell(g, row + 1, cc) # Empty
    IN IF col + n > cols THEN NoPlace
       ELSE IF col > 0 /\ line[col] # Empty THEN NoPlace
       ELSE IF \A k \in 1..n : line[col + k] # word[k] THEN NoPlace
       ELSE IF \E k \in 1..n :
                  LET cell == line[col + k]
                  IN \/ cell # Empty /\ cell # word[k]
                     \/ cell # word[k] /\ (above(col + k - 1) \/ below(col + k - 1))
            THEN NoPlace
       ELSE LET intersections == Cardinality({k \in 1..n : line[col + k] = word[k]})
            IN [canPlace |-> intersections > 0, intersections |-> intersections]

\* The early returns of the letter loop all return NoPlace, and so does the
\* end of the function when no letter met its own letter in the grid
\* (intersectionFound is set exactly when intersections > 0); the cases are
\* therefore tested in the order that is cheapest to evaluate.
canPlaceWordHorizontally(g, word, row, col) ==
    LET rows == NumRows(g)
        cols == NumCols(g)
        n == Len(word)
        line == g[row + 1]
        above(cc) == row > 0 /\ Cell(g, row - 1, cc) # Empty
        below(cc) == row < rows - 1 /\ Cell(g, row + 1, cc) # Empty
    IN IF col + n > cols THEN NoPlace
       ELSE IF col > 0 /\ line[col] # Empty THEN NoPlace
       ELSE IF col + n < cols /\ line[col + n + 1] # Empty THEN NoPlace
       ELSE IF \A k \in 1..n : line[col + k] # word[k] THEN NoPlace
       ELSE IF \E k \in 1..n :
                  LET cell == line[col + k]
                  IN \/ cell # Empty /\ cell # word[k]
                     \/ cell # word[k] /\ (above(col + k - 1) \/ below(col + k - 1))
            THEN NoPlace
       ELSE LET intersections == Cardinality({k \in 1..n : line[col + k] = word[k]})
            IN [canPlace |-> intersections > 0, intersections |-> intersections]

\* canPlaceWordVertically that returns canPlace: true at line 627 whether or not
\* a letter of the word met its own letter in the grid
canPlaceWordVertically_NoIntersectionNeeded(g, word, row, col) ==
    LET rows == NumRows(g)
        cols == NumCols(g)
        n == Len(word)
        left(cr) == col > 0 /\ Cell(g, cr, col - 1) # Empty
        right(cr) == col < cols - 1 /\ Cell(g, cr, col + 1) # Empty
    IN IF row + n > rows THEN NoPlace
       ELSE IF row > 0 /\ Cell(g, row - 1, col) # Empty THEN NoPlace
       ELSE IF row + n < rows /\ Cell(g, row + n, col) # Empty THEN NoPlace
       ELSE IF \E k \in 1..n :
                  LET cell == Cell(g, row + k - 1, col)
                  IN \/ cell # Empty /\ cell # word[k]
                     \/ cell # word[k] /\ (left(row + k - 1) \/ right(row + k - 1))
            THEN NoPlace
       ELSE LET intersections ==
                    Cardinality({k \in 1..n : Cell(g, row + k - 1, col) = word[k]})
            IN [canPlace |-> TRUE, intersections |-> intersections]

\* canPlaceWordVertically without the test of lines 594-597: a cell that holds
\* another letter no longer rejects the placement
canPlaceWordVertically_NoConflictCheck(g, word, row, col) ==
    LET rows == NumRows(g)
        cols == NumCols(g)
        n == Len(word)
        left(cr) == col > 0 /\ Cell(g, cr, col - 1) # Empty
        right(cr) == col < cols - 1 /\ Cell(g, cr, col + 1) # Empty
    IN IF row + n > rows THEN NoPlace
       ELSE IF row > 0 /\ Cell(g, row - 1, col) # Empty THEN NoPlace
       ELSE IF row + n < rows /\ Cell(g, row + n, col) # Empty THEN NoPlace
       ELSE IF \A k \in 1..n : Cell(g, row + k - 1, col) # word[k] THEN NoPlace
       ELSE IF \E k \in 1..n :
                  /\ Cell(g, row + k - 1, col) = Empty
                  /\ left(row + k - 1) \/ right(row + k - 1)
            THEN NoPlace
       ELSE LET intersections ==
                    Cardinality({k \in 1..n : Cell(g, row + k - 1, col) = word[k]})
            IN [canPlace |-> intersections > 0, intersections |-> intersections]

canPlaceWordVertically(g, word, row, col) ==
    LET rows == NumRows(g)
        cols == NumCols(g)
        n == Len(word)
        left(cr) == col > 0 /\ Cell(g, cr, col - 1) # Empty
        right(cr) == col < cols - 1 /\ Cell(g, cr, col + 1) # Empty
    IN IF row + n > rows THEN NoPlace
       ELSE IF row > 0 /\ Cell(g, row - 1, col) # Empty THEN NoPlace
       ELSE IF row + n < rows /\ Cell(g, row + n, col) # Empty THEN NoPlace
       ELSE IF \A k \in 1..n : Cell(g, row + k - 1, col) # word[k] THEN NoPlace
       ELSE IF \E k \in 1..n :
                  LET cell == Cell(g, row + k - 1, col)
                  IN \/ cell # Empty /\ cell # word[k]
                     \/ cell # word[k] /\ (left(row + k - 1) \/ right(row + k - 1))
            THEN NoPlace
       ELSE LET intersections ==
                    Cardinality({k \in 1..n : Cell(g, row + k - 1, col) = word[k]})
            IN [canPlace |-> intersections > 0, intersections |-> intersections]

canPlaceWord(g, word, row, col, direction) ==
    IF direction = "across" THEN canPlaceWordHorizontally(g, word, row, col)
    ELSE canPlaceWordVertically(g, word, row, col)

\* position of a placement in the scan of findBestPlacement: row, then col,
\* then across before down
scanIndex(g, p) ==
    2 * (p.row * NumCols(g) + p.col) + (IF p.direction = "across" THEN 0 ELSE 1)

\* every placement the scan of findBestPlacement tries (lines 467-483)
scanPlacements(g) ==
    [row : 0..(NumRows(g) - 1), col : 0..(NumCols(g) - 1), direction : {"across", "down"}]

rowsWithLetters(g) ==
    {r \in 0..(NumRows(g) - 1) : \E c \in 0..(NumCols(g) - 1) : Cell(g, r, c) # Empty}
colsWithLetters(g) ==
    {c \in 0..(NumCols(g) - 1) : \E r \in 0..(NumRows(g) - 1) : Cell(g, r, c) # Empty}

\* The placements the scan accepts.  A placement is accepted only with
\* intersections > 0, that is with a letter in its span: an across placement in
\* a row without letters and a down placement in a column without letters are
\* rejected, and only the others are evaluated (validPlacementsFullScan is the
\* same set computed over the whole scan; ScanShortcutIsExact compares them).
validPlacements(g, word) ==
    LET letterRows == rowsWithLetters(g)
        letterCols == colsWithLetters(g)
    IN {p \in [row : letterRows, col : 0..(NumCols(g) - 1), direction : {"across"}] :
           canPlaceWordHorizontally(g, word, p.row, p.col).canPlace}
       \cup
       {p \in [row : 0..(NumRows(g) - 1), col : letterCols, direction : {"down"}] :
           canPlaceWordVertically(g, word, p.row, p.col).canPlace}

validPlacementsFullScan(g, word) ==
    {p \in scanPlacements(g) : canPlaceWord(g, word, p.row, p.col, p.direction).canPlace}

\* bestPlacement is replaced only by a strictly larger intersection count, so
\* the loop ends with the first placement in scan order among those with the
\* largest count; null when no placement is valid
findBestPlacement(g, word) ==
    LET valid == validPlacements(g, word)
        count(p) == canPlaceWord(g, word, p.row, p.col, p.direction).intersections
    IN IF valid = {} THEN Null
       ELSE CHOOSE p \in valid :
              \A q \in valid :
                 \/ count(p) > count(q)
                 \/ count(p) = count(q) /\ scanIndex(g, p) <= scanIndex(g, q)

\* The loop of findBestPlacement, cell by cell: acc is [bestScore, bestPlacement]
\* as they stand before the cell (row, col) is tried.

\* both tests of lines 471 and 478 with >= for >: a later placement with an
\* equal count replaces the earlier one
scanCell_KeepLast(g, word, row, col, acc) ==
    LET h == canPlaceWordHorizontally(g, word, row, col)
        acc1 == IF h.canPlace /\ h.intersections >= acc.bestScore
                THEN [bestScore |-> h.intersections,
                      bestPlacement |-> [row |-> row, col |-> col, direction |-> "across"]]
                ELSE acc
        v == canPlaceWordVertically(g, word, row, col)
    IN IF v.canPlace /\ v.intersections >= acc1.bestScore
       THEN [bestScore |-> v.intersections,
             bestPlacement |-> [row |-> row, col |-> col, direction |-> "down"]]
       ELSE acc1

\* lines 469-482: the body of the inner loop
scanCell(g, word, row, col, acc) ==
    LET h == canPlaceWordHorizontally(g, word, row, col)
        acc1 == IF h.canPlace /\ h.intersections > acc.bestScore
                THEN [bestScore |-> h.intersections,
                      bestPlacement |-> [row |-> row, col |-> col, direction |-> "across"]]
                ELSE acc
        v == canPlaceWordVertically(g, word, row, col)
    IN IF v.canPlace /\ v.intersections > acc1.bestScore
       THEN [bestScore |-> v.intersections,
             bestPlacement |-> [row |-> row, col |-> col, direction |-> "down"]]
       ELSE acc1

\* line 468: the loop over the columns of one row, from col on (bestScore is
\* never below -1: the test makes TLC evaluate the cell before it goes on to
\* the next one)
RECURSIVE scanRow(_, _, _, _, _)
scanRow(g, word, row, col, acc) ==
    IF col >= NumCols(g) THEN acc
    ELSE LET next == scanCell(g, word, row, col, acc)
         IN IF next.bestScore >= 0 - 1 THEN scanRow(g, word, row, col + 1, next)
            ELSE next

\* line 467: the loop over the rows, from row on
RECURSIVE scanRows(_, _, _, _)
scanRows(g, word, row, acc) ==
    IF row >= NumRows(g) THEN acc
    ELSE LET next == scanRow(g, word, row, 0, acc)
         IN IF next.bestScore >= 0 - 1 THEN scanRows(g, word, row + 1, next)
            ELSE next

\* findBestPlacement computed by its loop
findBestPlacementLoop(g, word) ==
    scanRows(g, word, 0, [bestScore |-> 0 - 1, bestPlacement |-> Null]).bestPlacement

----------------------------------------------------------------------------
(* Scoring: scores are exact fractions <<numerator, denominator>> *)

RECURSIVE GCD(_, _)
GCD(a, b) == IF b = 0 THEN a ELSE GCD(b, a % b)

Abs(x) == IF x < 0 THEN 0 - x ELSE x
Frac(n, d) == LET g == GCD(Abs(n), d) IN <<n \div g, d \div g>>
FracAdd(a, b) == Frac(a[1] * b[2] + b[1] * a[2], a[2] * b[2])
\* the comparison of line 359 with >= for >: a later attempt with an equal score wins
FracGT_OrEqual(a, b) == a[1] * b[2] >= b[1] * a[2]
FracGT(a, b) == a[1] * b[2] > b[1] * a[2]

SetMin(S) == CHOOSE x \in S : \A y \in S : x <= y
SetMax(S) == CHOOSE x \in S : \A y \in S : x >= y

\* the cells of the grid that hold something, scanned over grid.length rows
\* and grid[0].length columns
filledCellsOf(g) ==
    {rc \in (0..(NumRows(g) - 1)) \X (0..(NumCols(g) - 1)) :
        Cell(g, rc[1], rc[2]) # Empty}

scoreGrid(g, placed, totalWords) ==
    LET filled == filledCellsOf(g)
        minRow == SetMin({NumRows(g)} \cup {rc[1] : rc \in filled})
        maxRow == SetMax({0} \cup {rc[1] : rc \in filled})
        minCol == SetMin({NumCols(g)} \cup {rc[2] : rc \in filled})
        maxCol == SetMax({0} \cup {rc[2] : rc \in filled})
        height == maxRow - minRow + 1
        width == maxCol - minCol + 1
        usedArea == height * width
        placementScore == Frac(placed * 100, totalWords)
        densityScore == Frac(Cardinality(filled) * 20, usedArea)
        \* aspectRatio = max(height/width, width/height); shapeScore = 10/aspectRatio
        shapeScore == IF height >= width THEN Frac(width * 10, height)
                      ELSE Frac(height * 10, width)
    IN FracAdd(FracAdd(placementScore, densityScore), shapeScore)

----------------------------------------------------------------------------
(* Trimming and numbering *)

\* trimGrid with a padding of two cells instead of one (lines 677-680)
trimGrid_PaddingTwo(g) ==
    LET rows == NumRows(g)
        cols == NumCols(g)
        filled == filledCellsOf(g)
        minRow0 == SetMin({rows} \cup {rc[1] : rc \in filled})
        maxRow0 == SetMax({0} \cup {rc[1] : rc \in filled})
        minCol0 == SetMin({cols} \cup {rc[2] : rc \in filled})
        maxCol0 == SetMax({0} \cup {rc[2] : rc \in filled})
        minRow == SetMax({0, minRow0 - 2})
        maxRow == SetMin({rows - 1, maxRow0 + 2})
        minCol == SetMax({0, minCol0 - 2})
        maxCol == SetMin({cols - 1, maxCol0 + 2})
        trimmedRows == maxRow - minRow + 1
        trimmedCols == maxCol - minCol + 1
    IN [grid |-> [r \in 1..trimmedRows |->
                    [c \in 1..trimmedCols |-> Cell(g, minRow + r - 1, minCol + c - 1)]],
        bounds |-> [minRow |-> minRow, minCol |-> minCol,
                    maxRow |-> maxRow, maxCol |-> maxCol]]

\* trimGrid with the width of line 684 computed without the + 1
trimGrid_NarrowRows(g) ==
    LET rows == NumRows(g)
        cols == NumCols(g)
        filled == filledCellsOf(g)
        minRow0 == SetMin({rows} \cup {rc[1] : rc \in filled})
        maxRow0 == SetMax({0} \cup {rc[1] : rc \in filled})
        minCol0 == SetMin({cols} \cup {rc[2] : rc \in filled})
        maxCol0 == SetMax({0} \cup {rc[2] : rc \in filled})
        minRow == SetMax({0, minRow0 - 1})
        maxRow == SetMin({rows - 1, maxRow0 + 1})
        minCol == SetMax({0, minCol0 - 1})
        maxCol == SetMin({cols - 1, maxCol0 + 1})
        trimmedRows == maxRow - minRow + 1
        trimmedCols == maxCol - minCol
    IN [grid |-> [r \in 1..trimmedRows |->
                    [c \in 1..trimmedCols |-> Cell(g, minRow + r - 1, minCol + c - 1)]],
        bounds |-> [minRow |-> minRow, minCol |-> minCol,
                    maxRow |-> maxRow, maxCol |-> maxCol]]

trimGrid(g) ==
    LET rows == NumRows(g)
        cols == NumCols(g)
        filled == filledCellsOf(g)
        minRow0 == SetMin({rows} \cup {rc[1] : rc \in filled})
        maxRow0 == SetMax({0} \cup {rc[1] : rc \in filled})
        minCol0 == SetMin({cols} \cup {rc[2] : rc \in filled})
        maxCol0 == SetMax({0} \cup {rc[2] : rc \in filled})
        minRow == SetMax({0, minRow0 - 1})
        maxRow == SetMin({rows - 1, maxRow0 + 1})
        minCol == SetMax({0, minCol0 - 1})
        maxCol == SetMin({cols - 1, maxCol0 + 1})
        trimmedRows == maxRow - minRow + 1
        trimmedCols == maxCol - minCol + 1
    IN [grid |-> [r \in 1..trimmedRows |->
                    [c \in 1..trimmedCols |-> Cell(g, minRow + r - 1, minCol + c - 1)]],
        bounds |-> [minRow |-> minRow, minCol |-> minCol,
                    maxRow |-> maxRow, maxCol |-> maxCol]]

\* adjustEntryPositions that shifts by the letters' first row and column less
\* the padding, without the clamp of lines 677 and 679
adjustEntryPositions_Unclamped(es, originalGrid, trimmedGridData) ==
    [k \in 1..Len(es) |->
        [es[k] EXCEPT !.position =
            [row |-> es[k].position.row - (SetMin(rowsWithLetters(originalGrid)) - 1),
             col |-> es[k].position.col - (SetMin(colsWithLetters(originalGrid)) - 1)]]]

adjustEntryPositions(es, originalGrid, trimmedGridData) ==
    [k \in 1..Len(es) |->
        [es[k] EXCEPT !.position =
            [row |-> es[k].position.row - trimmedGridData.bounds.minRow,
             col |-> es[k].position.col - trimmedGridData.bounds.minCol]]]

\* the comparator of numberEntries is negative
positionBefore(a, b) ==
    IF a.position.row # b.position.row THEN a.position.row < b.position.row
    ELSE a.position.col < b.position.col

\* the forEach of numberEntries: numbered maps the positions seen to numbers
\* Array.prototype.sort is stable: each element is inserted after the elements
\* that do not compare greater than it
RECURSIVE insertEntry(_, _)
insertEntry(sorted, x) ==
    IF sorted = <<>> THEN <<x>>
    ELSE IF positionBefore(x, Head(sorted)) THEN <<x>> \o sorted
    ELSE <<Head(sorted)>> \o insertEntry(Tail(sorted), x)

RECURSIVE sortEntries(_)
sortEntries(es) ==
    IF es = <<>> THEN <<>>
    ELSE insertEntry(sortEntries(SubSeq(es, 1, Len(es) - 1)), es[Len(es)])

\* the forEach of numberEntries numbering a new position with the index of the
\* entry (index + 1) instead of the counter
RECURSIVE assignNumbers_ByIndex(_, _, _, _)
assignNumbers_ByIndex(es, k, numbered, nextNumber) ==
    IF k > Len(es) THEN es
    ELSE LET pos == es[k].position
         IN IF pos \in DOMAIN numbered
            THEN assignNumbers_ByIndex([es EXCEPT ![k].number = numbered[pos]],
                                       k + 1, numbered, nextNumber)
            ELSE assignNumbers_ByIndex([es EXCEPT ![k].number = k], k + 1,
                                       [p \in DOMAIN numbered \cup {pos} |->
                                           IF p = pos THEN k ELSE numbered[p]],
                                       nextNumber + 1)

RECURSIVE assignNumbers(_, _, _, _)
assignNumbers(es, k, numbered, nextNumber) ==
    IF k > Len(es) THEN es
    ELSE LET pos == es[k].position
         IN IF pos \in DOMAIN numbered
            THEN assignNumbers([es EXCEPT ![k].number = numbered[pos]],
                               k + 1, numbered, nextNumber)
            ELSE assignNumbers([es EXCEPT ![k].number = nextNumber], k + 1,
                               [p \in DOMAIN numbered \cup {pos} |->
                                   IF p = pos THEN nextNumber ELSE numbered[p]],
                               nextNumber + 1)

\* numberEntries that gives every entry a fresh number, without the map of
\* numbered positions (lines 745-747)
numberEntries_NoSharedNumbers(es) ==
    LET sorted == sortEntries(es)
    IN [k \in 1..Len(sorted) |-> [sorted[k] EXCEPT !.number = k]]

numberEntries(es) ==
    assignNumbers(sortEntries(es), 1, [p \in {} |-> 0], 1)

----------------------------------------------------------------------------
(* Preprocessing *)

\* the map of lines 233-238 taking every clue from the first record
mapWords_ClueOfFirst(qs) ==
    [k \in 1..Len(qs) |-> [word |-> cleanAnswer(qs[k].answer),
                           question |-> qs[1].question,
                           originalAnswer |-> qs[k].answer]]

mapWords(qs) ==
    [k \in 1..Len(qs) |-> [word |-> cleanAnswer(qs[k].answer),
                           question |-> qs[k].question,
                           originalAnswer |-> qs[k].answer]]

keepWord(wordData) ==
    /\ onlyLetters(wordData.word)
    /\ Len(wordData.word) >= MinWordLength

filterWords(ws) == SelectSeq(ws, keepWord)

\* the comparator with its operands exchanged: a.word.length - b.word.length
longerFirst_ShorterFirst(a, b) == Len(a.word) < Len(b.word)

\* the comparator b.word.length - a.word.length is negative
longerFirst(a, b) == Len(a.word) > Len(b.word)

RECURSIVE insertWord(_, _)
insertWord(sorted, x) ==
    IF sorted = <<>> THEN <<x>>
    ELSE IF longerFirst(x, Head(sorted)) THEN <<x>> \o sorted
    ELSE <<Head(sorted)>> \o insertWord(Tail(sorted), x)

\* words.sort(...), stable
RECURSIVE sortWords(_)
sortWords(ws) ==
    IF ws = <<>> THEN <<>>
    ELSE insertWord(sortWords(SubSeq(ws, 1, Len(ws) - 1)), ws[Len(ws)])

\* the Fisher-Yates loop; draws[k] is Math.floor(Math.random() * (k + 1))
\* for loop index k
\* the swap of line 322 without its temporary: arr[i] = arr[j]; arr[j] = arr[i]
RECURSIVE shuffle_NoTemp(_, _, _)
shuffle_NoTemp(arr, k, draws) ==
    IF k <= 0 THEN arr
    ELSE shuffle_NoTemp([arr EXCEPT ![k + 1] = arr[draws[k] + 1]], k - 1, draws)

RECURSIVE shuffle(_, _, _)
shuffle(arr, k, draws) ==
    IF k <= 0 THEN arr
    ELSE shuffle([arr EXCEPT ![k + 1] = arr[draws[k] + 1],
                             ![draws[k] + 1] = arr[k + 1]], k - 1, draws)

Draws(n) == {d \in [1..(n - 1) -> 0..(n - 1)] : \A k \in 1..(n - 1) : d[k] <= k}

----------------------------------------------------------------------------
(* Inputs *)

Pool ==
    << [question |-> "q1", answer |-> <<"T","R","A","C","K","S">>],
       [question |-> "q2", answer |-> <<"C","A","T">>],
       [question |-> "q3", answer |-> <<"C","A","T","S">>],
       [question |-> "q4", answer |-> <<"M","E","L","O","D","Y">>],
       [question |-> "q5", answer |-> <<"c","-","a"," ","t">>],
       [question |-> "q6", answer |-> <<"a","b">>],
       [question |-> "q7", answer |-> <<"A","S","S","E","T","S">>],
       [question |-> "q8", answer |-> Lower] >>

\* the largest number of records in an input list
MaxQuestions == 4

RECURSIVE pick(_, _)
pick(S, k) ==
    IF k > Len(Pool) THEN <<>>
    ELSE IF k \in S THEN <<Pool[k]>> \o pick(S, k + 1)
    ELSE pick(S, k + 1)

\* the input lists: the records of Pool with indices in S, in Pool order
InputLists ==
    {pick(S, 1) : S \in {T \in SUBSET (1..Len(Pool)) : Cardinality(T) <= MaxQuestions}}

----------------------------------------------------------------------------
(* buildCrossword *)

NoScore == <<0 - 1, 1>>

\* the messages of the Errors thrown at lines 230, 261 and 393
TooFewQuestionsError ==
    "At least 3 questions are required to build a crossword"
NotEnoughValidWordsError ==
    "Not enough valid words to build a crossword. Words must contain only letters and be at least 3 characters long."
LayoutFailedError ==
    "Failed to create a valid crossword with the provided words. Try different questions."

\* the state in which a call of buildCrossword(qs) starts
Start(qs) ==
    /\ questions = qs
    /\ pc = "start"
    /\ words = <<>>
    /\ attempt = 0
    /\ grid = <<>>
    /\ entries = <<>>
    /\ usedWords = {}
    /\ placedWords = 0
    /\ remainingWords = <<>>
    /\ i = 0
    /\ bestCrossword = Null
    /\ bestScore = NoScore
    /\ outcome = "running"
    /\ returned = Null
    /\ thrown = "none"
    /\ attemptLog = <<>>
    /\ bestScratch = Null
    /\ earlier = Null

Init == \E qs \in InputLists : Start(qs)

Throw(message) ==
    /\ thrown' = message
    /\ outcome' = "thrown"
    /\ pc' = "done"

\* lines 228-267: validation, cleaning, filtering, sorting
Preprocess ==
    /\ pc = "start"
    /\ IF Len(questions) < MinQuestions
       THEN /\ Throw(TooFewQuestionsError)
            /\ UNCHANGED words
       ELSE LET ws == filterWords(mapWords(questions))
            IN IF Len(ws) < MinValidWords
               THEN /\ Throw(NotEnoughValidWordsError)
                    /\ words' = ws
               ELSE /\ words' = sortWords(ws)
                    /\ pc' = "attempt"
                    /\ UNCHANGED <<thrown, outcome>>
    /\ UNCHANGED <<questions, attempt, grid, entries, usedWords, placedWords,
                   remainingWords, i, bestCrossword, bestScore, returned, attemptLog,
                   bestScratch, earlier>>

\* a shuffle in every attempt, the first one included
shuffles_Always(a) == a >= 0
\* line 318: the remaining words are shuffled when attempt > 0
shuffles(a) == a > 0

\* the attempt loop without the break of lines 379-382
placedAll_NoBreak(placed, total) == FALSE
\* line 379: placedWords === words.length
placedAll(placed, total) == placed = total

LogRecord(placed, threw, scored, score, becameBest) ==
    [attempt |-> attempt, placedWords |-> placed, threw |-> threw,
     scored |-> scored, score |-> score, becameBest |-> becameBest]

\* grid, entries, usedWords, placedWords, remainingWords and i are declared in
\* the body of the attempt loop: they do not outlive one attempt
LocalsGone ==
    /\ grid' = <<>>
    /\ entries' = <<>>
    /\ usedWords' = {}
    /\ placedWords' = 0
    /\ remainingWords' = <<>>
    /\ i' = 0

\* lines 274-324: one entry into the body of the attempt loop, up to the shuffle
StartAttempt ==
    /\ pc = "attempt"
    /\ attempt < attempts
    /\ LET position == startingPositions[(attempt % Len(startingPositions)) + 1]
           emptyGrid == initializeEmptyGrid(GridRows, GridCols)
           firstWordData == words[1]
           firstEntry == [answer |-> firstWordData.word,
                          clue |-> firstWordData.question,
                          position |-> [row |-> position.row, col |-> position.col],
                          direction |-> IF attempt % 2 = 0 THEN "across" ELSE "down",
                          number |-> 1]
           placement == [row |-> position.row, col |-> position.col,
                         direction |-> firstEntry.direction]
           sliced == SubSeq(words, 2, Len(words))
       IN IF placeWordThrows(emptyGrid, firstWordData.word, placement)
          THEN \* the TypeError is caught at line 383 and the loop goes on
               /\ LocalsGone
               /\ attemptLog' = Append(attemptLog, LogRecord(0, TRUE, FALSE, NoScore, FALSE))
               /\ attempt' = attempt + 1
               /\ pc' = "attempt"
          ELSE /\ grid' = placeWordInGrid(emptyGrid, firstWordData.word, placement)
               /\ entries' = <<firstEntry>>
               /\ usedWords' = {firstWordData.word}
               /\ placedWords' = 1
               /\ IF shuffles(attempt)
                  THEN \E draws \in Draws(Len(sliced)) :
                          remainingWords' = shuffle(sliced, Len(sliced) - 1, draws)
                  ELSE remainingWords' = sliced
               /\ i' = 0
               /\ pc' = "place"
               /\ UNCHANGED <<attempt, attemptLog>>
    /\ UNCHANGED <<questions, words, bestCrossword, bestScore, outcome, returned,
                   thrown, bestScratch, earlier>>

\* lines 327-347: one iteration of the placement loop
TryPlace ==
    /\ pc = "place"
    /\ i < Len(remainingWords)
    /\ LET wordData == remainingWords[i + 1]
           placement == findBestPlacement(grid, wordData.word)
       IN IF wordData.word \in usedWords
          THEN UNCHANGED <<grid, entries, usedWords, placedWords>>
          ELSE IF placement # Null
          THEN /\ grid' = placeWordInGrid(grid, wordData.word, placement)
               /\ entries' = Append(entries,
                     [answer |-> wordData.word,
                      clue |-> wordData.question,
                      position |-> [row |-> placement.row, col |-> placement.col],
                      direction |-> placement.direction,
                      \* entryNumber starts at 2 and counts the pushes
                      number |-> Len(entries) + 1])
               /\ usedWords' = usedWords \cup {wordData.word}
               /\ placedWords' = placedWords + 1
          ELSE UNCHANGED <<grid, entries, usedWords, placedWords>>
    /\ i' = i + 1
    /\ UNCHANGED <<questions, pc, words, attempt, remainingWords, bestCrossword,
                   bestScore, outcome, returned, thrown, attemptLog, bestScratch,
                   earlier>>

\* lines 349-382: the end of one attempt
EndAttempt ==
    /\ pc = "place"
    /\ i >= Len(remainingWords)
    /\ LocalsGone
    /\ IF placedWords < MinPlacedWords
       THEN \* continue
            /\ attemptLog' = Append(attemptLog,
                   LogRecord(placedWords, FALSE, FALSE, NoScore, FALSE))
            /\ attempt' = attempt + 1
            /\ pc' = "attempt"
            /\ UNCHANGED <<bestCrossword, bestScore, bestScratch>>
       ELSE LET score == scoreGrid(grid, placedWords, Len(words))
                trimmedGrid == trimGrid(grid)
                trimmedEntries == adjustEntryPositions(entries, grid, trimmedGrid)
            IN /\ IF FracGT(score, bestScore)
                  THEN /\ bestCrossword' = [grid |-> trimmedGrid,
                                            entries |-> numberEntries(trimmedEntries)]
                       /\ bestScore' = score
                       /\ bestScratch' = [attempt |-> attempt, grid |-> grid,
                                          entries |-> entries]
                  ELSE UNCHANGED <<bestCrossword, bestScore, bestScratch>>
               /\ attemptLog' = Append(attemptLog,
                      LogRecord(placedWords, FALSE, TRUE, score, FracGT(score, bestScore)))
               /\ IF placedAll(placedWords, Len(words))
                  THEN \* break
                       /\ pc' = "finish"
                       /\ UNCHANGED attempt
                  ELSE /\ attempt' = attempt + 1
                       /\ pc' = "attempt"
    /\ UNCHANGED <<questions, words, outcome, returned, thrown, earlier>>

\* lines 388-393: after the attempt loop
Finish ==
    /\ \/ pc = "finish"
       \/ pc = "attempt" /\ attempt >= attempts
    /\ IF bestCrossword # Null /\ Len(bestCrossword.entries) >= MinEntries
       THEN /\ returned' = bestCrossword
            /\ outcome' = "returned"
            /\ pc' = "done"
            /\ UNCHANGED thrown
       ELSE /\ Throw(LayoutFailedError)
            /\ UNCHANGED returned
    /\ UNCHANGED <<questions, words, attempt, grid, entries, usedWords, placedWords,
                   remainingWords, i, bestCrossword, bestScore, attemptLog, bestScratch,
                   earlier>>

Next == Preprocess \/ StartAttempt \/ TryPlace \/ EndAttempt \/ Finish

Spec == Init /\ [][Next]_vars

\* wherever findBestPlacement is called, the placements it evaluates are the
\* valid placements of the whole scan
ScanShortcutIsExact ==
    (pc = "place" /\ i < Len(remainingWords)) =>
       validPlacements(grid, remainingWords[i + 1].word)
          = validPlacementsFullScan(grid, remainingWords[i + 1].word)

----------------------------------------------------------------------------
(* The returned result *)

Success == outcome = "returned"

\* the two-dimensional array of cells of the result
ResultCells == returned.grid.grid
ResultRows == Len(ResultCells)
ResultCols == Len(ResultCells[1])
InResult(row, col) == row >= 0 /\ row < ResultRows /\ col >= 0 /\ col < ResultCols
ResultAt(row, col) == ResultCells[row + 1][col + 1]
\* a cell of the result that holds a letter
Lettered(row, col) == InResult(row, col) /\ ResultAt(row, col) # Empty

\* the coordinate of letter k (1-based) of entry e
EntryRow(e, k) == IF e.direction = "down" THEN e.position.row + k - 1 ELSE e.position.row
EntryCol(e, k) == IF e.direction = "down" THEN e.position.col ELSE e.position.col + k - 1

ResultEntries == {returned.entries[k] : k \in 1..Len(returned.entries)}

\* the input holds an answer longer than the 12 letters the specification allows
HasOverlongAnswer ==
    \E k \in 1..Len(questions) : Len(cleanAnswer(questions[k].answer)) > 12

----------------------------------------------------------------------------
(* Claims *)

\* C1: round trip: in every successful result every entry's answer is read
\* back from the returned grid, cell by cell from its position along its
\* direction, and all those cells lie inside the returned grid.
C1_RoundTrip ==
    Success =>
      \A e \in ResultEntries : \A k \in 1..Len(e.answer) :
         /\ InResult(EntryRow(e, k), EntryCol(e, k))
         /\ ResultAt(EntryRow(e, k), EntryCol(e, k)) = e.answer[k]

\* C2: no contradiction: in every successful result, entries that cover the
\* same coordinate have the same letter there.
C2_NoContradiction ==
    Success =>
      \A j1, j2 \in 1..Len(returned.entries) :
         LET e1 == returned.entries[j1]
             e2 == returned.entries[j2]
         IN \A k1 \in 1..Len(e1.answer), k2 \in 1..Len(e2.answer) :
               (/\ EntryRow(e1, k1) = EntryRow(e2, k2)
                /\ EntryCol(e1, k1) = EntryCol(e2, k2))
               => e1.answer[k1] = e2.answer[k2]

\* a successful result in which two different entries cover a common cell
C2_Witness ==
    /\ Success
    /\ \E j1, j2 \in 1..Len(returned.entries) :
         /\ j1 # j2
         /\ \E k1 \in 1..Len(returned.entries[j1].answer),
               k2 \in 1..Len(returned.entries[j2].answer) :
              /\ EntryRow(returned.entries[j1], k1) = EntryRow(returned.entries[j2], k2)
              /\ EntryCol(returned.entries[j1], k1) = EntryCol(returned.entries[j2], k2)

\* a maximal horizontal run of n >= 2 letters starts at (row, col)
AcrossRun(row, col, n) ==
    /\ n >= 2
    /\ \A k \in 0..(n - 1) : Lettered(row, col + k)
    /\ ~Lettered(row, col - 1)
    /\ ~Lettered(row, col + n)
DownRun(row, col, n) ==
    /\ n >= 2
    /\ \A k \in 0..(n - 1) : Lettered(row + k, col)
    /\ ~Lettered(row - 1, col)
    /\ ~Lettered(row + n, col)
Declared(row, col, n, direction) ==
    \E e \in ResultEntries :
       /\ e.direction = direction
       /\ e.position = [row |-> row, col |-> col]
       /\ Len(e.answer) = n

\* C3: no accidental words: in every successful result every maximal
\* horizontal or vertical run of two or more letters of the returned grid is
\* exactly the span of a declared entry of that direction.
C3_NoAccidentalWords ==
    Success =>
      \A row \in 0..(ResultRows - 1), col \in 0..(ResultCols - 1) :
         Lettered(row, col) =>
           /\ \A n \in 2..(ResultCols - col) :
                 AcrossRun(row, col, n) => Declared(row, col, n, "across")
           /\ \A n \in 2..(ResultRows - row) :
                 DownRun(row, col, n) => Declared(row, col, n, "down")

\* C4: no run-on entries: in every successful result the cell before the
\* first letter and the cell after the last letter of every entry, along its
\* own axis, is empty or outside the grid.  It is stated for the inputs whose
\* cleaned answers have at most 12 letters, the inputs every other rule of the
\* specification is about.
C4_NoRunOnEntries ==
    (Success /\ ~HasOverlongAnswer) =>
      \A e \in ResultEntries :
         /\ ~Lettered(EntryRow(e, 0), EntryCol(e, 0))
         /\ ~Lettered(EntryRow(e, Len(e.answer) + 1), EntryCol(e, Len(e.answer) + 1))

LogRecords == {attemptLog[k] : k \in 1..Len(attemptLog)}

\* C5: minimum size: a returned result has at least 3 entries, and an attempt
\* that placed fewer than 3 words is neither scored nor recorded as the best.
C5_MinimumSize ==
    /\ Success => Len(returned.entries) >= 3
    /\ bestCrossword # Null => Len(bestCrossword.entries) >= 3
    /\ \A rec \in LogRecords :
          rec.placedWords < 3 =>
             /\ ~rec.scored
             /\ ~rec.becameBest
             /\ bestScratch # Null => bestScratch.attempt # rec.attempt

\* a result is returned although one attempt of the call ran to its end with
\* fewer than 3 words placed
C5_Witness ==
    /\ Success
    /\ \E rec \in LogRecords : rec.placedWords < 3 /\ ~rec.threw

\* the errors thrown for an input with too few usable records
TooFewMessages == {TooFewQuestionsError, NotEnoughValidWordsError}

\* the records whose cleaned answer is letters-only with 3 to 12 letters
SpecValidRecords ==
    {k \in 1..Len(questions) :
        LET w == cleanAnswer(questions[k].answer)
        IN onlyLetters(w) /\ Len(w) >= 3 /\ Len(w) <= 12}

\* C6: with fewer than 3 records whose cleaned answer is letters-only and 3 to
\* 12 letters long, the call fails with the too-few-valid-words error, before
\* a scratch grid is allocated or a word is placed.
C6_TooFewValidWords ==
    (Cardinality(SpecValidRecords) < 3 /\ pc # "start") =>
       /\ outcome = "thrown"
       /\ thrown \in TooFewMessages
       /\ grid = <<>>
       /\ entries = <<>>
       /\ attemptLog = <<>>

\* C7: when at least 3 candidates survive preprocessing, the call fails
\* exactly when no attempt placed at least 3 words; the failure is the
\* layout-construction error, raised after all 3 attempts have run, different
\* from the too-few-valid-words error, and nothing is returned with it.
C7_LayoutFailure ==
    (pc = "done" /\ Len(words) >= 3) =>
       /\ outcome = "thrown" <=> (\A rec \in LogRecords : rec.placedWords < 3)
       /\ outcome = "thrown" =>
             /\ thrown = LayoutFailedError
             /\ thrown \notin TooFewMessages
             /\ Len(attemptLog) = 3
             /\ {rec.attempt : rec \in LogRecords} = {0, 1, 2}
             /\ returned = Null

\* the layout-construction error was raised
C7_Witness ==
    /\ pc = "done"
    /\ Len(words) >= 3
    /\ thrown = LayoutFailedError

RowMajorBefore(p, q) == p.row < q.row \/ (p.row = q.row /\ p.col < q.col)

\* C8: numbering: entries with the same position have the same number, and of
\* two entries with different positions the one whose position comes first in
\* row-major order has the strictly smaller number.
C8_Numbering ==
    Success =>
      \A e1, e2 \in ResultEntries :
         /\ e1.position = e2.position => e1.number = e2.number
         /\ RowMajorBefore(e1.position, e2.position) => e1.number < e2.number

\* a successful result with two entries that start in the same cell and a
\* third that starts elsewhere
C8_Witness ==
    /\ Success
    /\ \E e1, e2, e3 \in ResultEntries :
         /\ e1 # e2
         /\ e1.position = e2.position
         /\ e3.position # e1.position

RowHasLetter(row) == \E col \in 0..(ResultCols - 1) : Lettered(row, col)
ColHasLetter(col) == \E row \in 0..(ResultRows - 1) : Lettered(row, col)

\* C9: trimmed border: in every successful result the second row from the top
\* and from the bottom and the second column from the left and from the right
\* of the returned grid hold a letter.
C9_TrimmedBorder ==
    Success =>
      /\ RowHasLetter(1)
      /\ RowHasLetter(ResultRows - 2)
      /\ ColHasLetter(1)
      /\ ColHasLetter(ResultCols - 2)

\* a successful result whose letters reach row 0 of the scratch grid, where
\* the padding is clamped
C9_Witness ==
    /\ Success
    /\ returned.grid.bounds.minRow = 0
    /\ RowHasLetter(0)

\* C10 (as stated): the value of the grid field of the result is itself the
\* two-dimensional array, so that grid[row][col] is a letter or the empty
\* string: it is not an object with properties grid and bounds.
C10_GridFieldIsCellArray ==
    Success =>
      /\ DOMAIN returned.grid # {"grid", "bounds"}
      /\ \A r \in DOMAIN returned.grid : \A c \in DOMAIN returned.grid[r] :
            returned.grid[r][c] \in AZ \cup {Empty}

\* C10 (amended): the grid field of the result is an object with the
\* properties grid and bounds; grid.grid is the two-dimensional array of the
\* trimmed grid, bounds.maxRow - bounds.minRow + 1 rows of
\* bounds.maxCol - bounds.minCol + 1 cells, each a single uppercase letter or
\* the empty string.
C10_GridObjectHoldsCellArray ==
    Success =>
      /\ DOMAIN returned.grid = {"grid", "bounds"}
      /\ ResultRows = returned.grid.bounds.maxRow - returned.grid.bounds.minRow + 1
      /\ \A r \in 1..ResultRows :
            /\ Len(ResultCells[r]) =
                  returned.grid.bounds.maxCol - returned.grid.bounds.minCol + 1
            /\ \A c \in 1..Len(ResultCells[r]) : ResultCells[r][c] \in AZ \cup {Empty}

\* a successful result with letters and empty cells in its grid
C10_Witness ==
    /\ Success
    /\ \E r \in 1..ResultRows : \E c1, c2 \in 1..ResultCols :
          ResultCells[r][c1] \in AZ /\ ResultCells[r][c2] = Empty

----------------------------------------------------------------------------
(* Preprocessing claims *)

\* the length the specification allows for a cleaned answer
SpecLength(word) == Len(word) >= 3 /\ Len(word) <= 12

\* C11: length filter: a cleaned answer with fewer than 3 or more than 12
\* letters never becomes a candidate, is never placed in an attempt, never
\* appears as an entry, and is not counted among the surviving candidates.
C11_LengthFilter ==
    /\ \A k \in 1..Len(words) : SpecLength(words[k].word)
    /\ \A w \in usedWords : SpecLength(w)
    /\ \A k \in 1..Len(entries) : SpecLength(entries[k].answer)
    /\ Success => \A e \in ResultEntries : SpecLength(e.answer)
    /\ Len(words) <= Cardinality(SpecValidRecords)

\* C12: de-duplication: no two candidates of the preprocessed list have the
\* same cleaned answer, so the number of candidates (the count of the
\* fewer-than-3 check, of the placement score and of the early exit) is the
\* number of distinct valid answers.
C12_NoDuplicateCandidates ==
    /\ \A j, k \in 1..Len(words) : words[j].word = words[k].word => j = k
    /\ Len(words) = Cardinality({words[k].word : k \in 1..Len(words)})

----------------------------------------------------------------------------
(* Attempt selection *)

\* the attempts that ran to their end with at least 3 words placed
RanWithThree == {rec \in LogRecords : rec.placedWords >= 3}

\* score a is numerically larger than score b
HigherScore(a, b) == a[1] * b[2] - b[1] * a[2] > 0

\* C13: best-attempt selection: the returned result is the layout of the
\* attempt with the highest totalScore among the attempts that placed at
\* least 3 words, the earliest of them when several have that score.
C13_BestAttempt ==
    Success =>
      \E win \in RanWithThree :
         /\ \A rec \in RanWithThree :
               \/ HigherScore(win.score, rec.score)
               \/ win.score = rec.score /\ win.attempt <= rec.attempt
         /\ bestScratch.attempt = win.attempt
         /\ returned.grid = trimGrid(bestScratch.grid)
         /\ returned.entries =
               numberEntries(adjustEntryPositions(bestScratch.entries, bestScratch.grid,
                                                  trimGrid(bestScratch.grid)))

\* a result is returned after two attempts reached the same highest score, and
\* after a later attempt beat an earlier one
C13_Witness ==
    /\ Success
    /\ \E r0, r1, r2 \in RanWithThree :
          /\ r0.attempt < r1.attempt
          /\ r1.attempt < r2.attempt
          /\ HigherScore(r1.score, r0.score)
          /\ r1.score = r2.score
          /\ bestScratch.attempt = r1.attempt

----------------------------------------------------------------------------
(* The concrete scenario of the specification *)

JazzQuestions ==
    << [question |-> "j1", answer |-> <<"J","A","Z","Z">>],
       [question |-> "j2", answer |-> <<"R","O","C","K">>],
       [question |-> "j3", answer |-> <<"B","E","A","T">>],
       [question |-> "j4", answer |-> <<"J","A","M">>],
       [question |-> "j5", answer |-> <<"B","A","N","D">>],
       [question |-> "j6", answer |-> <<"K","E","Y","S">>] >>

InitJazz == Start(JazzQuestions)

\* the calls of buildCrossword on the scenario's input, for every outcome of
\* the shuffles
SpecJazz == InitJazz /\ [][Next]_vars

\* entries e1 and e2 cover a common cell
Cross(e1, e2) ==
    \E k1 \in 1..Len(e1.answer), k2 \in 1..Len(e2.answer) :
       /\ EntryRow(e1, k1) = EntryRow(e2, k2)
       /\ EntryCol(e1, k1) = EntryCol(e2, k2)

\* C14: for the answers JAZZ, ROCK, BEAT, JAM, BAND, KEYS every call returns a
\* result with exactly 6 entries, one per word, each crossing another entry.
C14_JazzScenario ==
    (questions = JazzQuestions /\ pc = "done") =>
       /\ Success
       /\ Len(returned.entries) = 6
       /\ {e.answer : e \in ResultEntries} = {q.answer : q \in {JazzQuestions[k] : k \in 1..6}}
       /\ \A e1 \in ResultEntries : \E e2 \in ResultEntries : e1 # e2 /\ Cross(e1, e2)

----------------------------------------------------------------------------
(* Repeated calls *)

\* how the call that has just ended ended
Ended == [outcome |-> outcome, returned |-> returned, thrown |-> thrown]

\* buildCrossword is called again with the same argument: the module keeps
\* no state between calls, so the second call starts like the first
CallAgain ==
    /\ pc = "done"
    /\ earlier = Null
    /\ earlier' = Ended
    /\ pc' = "start"
    /\ words' = <<>>
    /\ attempt' = 0
    /\ LocalsGone
    /\ bestCrossword' = Null
    /\ bestScore' = NoScore
    /\ outcome' = "running"
    /\ returned' = Null
    /\ thrown' = "none"
    /\ attemptLog' = <<>>
    /\ bestScratch' = Null
    /\ UNCHANGED questions

NextRepeated == Next \/ CallAgain

\* two calls of buildCrossword on the same input list
SpecRepeated == Init /\ [][NextRepeated]_vars

\* C15: purity: a second call on the same input list ends as the first did,
\* with the same grid and entries or the same error, whatever the shuffles
\* drew.  It is stated for the inputs whose cleaned answers have at most 12
\* letters, the inputs the specification admits as candidates.
C15_SameOutcome ==
    (pc = "done" /\ earlier # Null /\ ~HasOverlongAnswer) => Ended = earlier

----------------------------------------------------------------------------
(* Coordinate rewrite *)

\* the smallest row and column of scratch grid g that hold a letter
FirstLetterRow(g) == SetMin(rowsWithLetters(g))
FirstLetterCol(g) == SetMin(colsWithLetters(g))

\* every entry of the winning attempt is in the result, moved by (dRow, dCol)
MovedBy(dRow, dCol) ==
    \A k \in 1..Len(bestScratch.entries) :
       LET e == bestScratch.entries[k]
       IN \E r \in ResultEntries :
             /\ r.answer = e.answer
             /\ r.clue = e.clue
             /\ r.direction = e.direction
             /\ r.position = [row |-> e.position.row - dRow, col |-> e.position.col - dCol]

\* C16 (as stated): each entry's position in the result is its scratch-grid
\* position minus (minRow - 1, minCol - 1), minRow and minCol being the
\* smallest row and column with a letter, also when the letters reach row 0
\* or column 0 of the scratch grid.
C16_RewriteByPaddedMin ==
    Success => MovedBy(FirstLetterRow(bestScratch.grid) - 1,
                       FirstLetterCol(bestScratch.grid) - 1)

Max0(x) == IF x > 0 THEN x ELSE 0

\* C16 (amended): each entry's position in the result is its scratch-grid
\* position minus (max(0, minRow - 1), max(0, minCol - 1)): when the letters
\* reach row 0 (column 0) of the scratch grid there is no padding row
\* (column) and the row (column) coordinate is unchanged.
C16_RewriteByClampedMin ==
    Success => MovedBy(Max0(FirstLetterRow(bestScratch.grid) - 1),
                       Max0(FirstLetterCol(bestScratch.grid) - 1))

\* a result whose winning attempt has a letter in row 0 of the scratch grid
\* and an entry that starts there
C16_Witness ==
    /\ Success
    /\ FirstLetterRow(bestScratch.grid) = 0
    /\ \E k \in 1..Len(bestScratch.entries) : bestScratch.entries[k].position.row = 0
    /\ \E r \in ResultEntries : r.position.row = 0

----------------------------------------------------------------------------
(* The greedy choice *)

\* the largest number of records in an input list of the placement checks
MaxScanQuestions == 3

\* the calls of buildCrossword on the shorter input lists: every call of
\* findBestPlacement they make is compared with the whole scan
InitPlacement == \E qs \in {l \in InputLists : Len(l) <= MaxScanQuestions} : Start(qs)
SpecPlacement == InitPlacement /\ [][Next]_vars

\* C17: greedy choice: for a word tried after the seed, findBestPlacement
\* returns null exactly when no placement is valid; otherwise it returns a
\* valid placement with the largest intersection count, the first of those in
\* row-major scan order, across before down at the same cell.  The placement
\* the attempt uses is the one the loop computes.
C17_GreedyChoice ==
    (pc = "place" /\ i < Len(remainingWords)) =>
       LET word == remainingWords[i + 1].word
           p == findBestPlacementLoop(grid, word)
           valid == validPlacementsFullScan(grid, word)
           count(q) == canPlaceWord(grid, word, q.row, q.col, q.direction).intersections
       IN /\ p = findBestPlacement(grid, word)
          /\ (p = Null) <=> (valid = {})
          /\ p # Null =>
                /\ p \in valid
                /\ \A q \in valid :
                      /\ count(q) <= count(p)
                      /\ count(q) = count(p) => scanIndex(grid, p) <= scanIndex(grid, q)

\* a word is tried whose chosen placement has more intersections than a valid
\* placement that the scan meets earlier
C17_Witness ==
    /\ pc = "place"
    /\ i < Len(remainingWords)
    /\ LET word == remainingWords[i + 1].word
           p == findBestPlacementLoop(grid, word)
           valid == validPlacementsFullScan(grid, word)
           count(q) == canPlaceWord(grid, word, q.row, q.col, q.direction).intersections
       IN /\ p # Null
          /\ \E q \in valid :
                /\ count(q) < count(p)
                /\ scanIndex(grid, q) < scanIndex(grid, p)

----------------------------------------------------------------------------
(* Intersections and connectivity *)

\* the cells <<row, col>> of scratch grid g that hold a letter
FilledCells(g) ==
    UNION {{<<r, c>> : c \in {cc \in 0..(Len(g[r + 1]) - 1) : g[r + 1][cc + 1] # Empty}} :
              r \in 0..(Len(g) - 1)}

\* the 4 neighbours of cell p
Neighbours(p) ==
    {<<p[1] - 1, p[2]>>, <<p[1] + 1, p[2]>>, <<p[1], p[2] - 1>>, <<p[1], p[2] + 1>>}

\* the cells of S reached from the cells reached so far, frontier being the
\* cells added last
RECURSIVE Grow(_, _, _)
Grow(S, reached, frontier) ==
    LET new == ((UNION {Neighbours(p) : p \in frontier}) \cap S) \ reached
    IN IF new = {} THEN reached ELSE Grow(S, reached \cup new, new)

\* S is one 4-connected region
Connected(S) ==
    S = {} \/ LET first == CHOOSE p \in S : TRUE
              IN Grow(S, {first}, {first}) = S

\* entry e covers a cell that entry d covers too, with the same letter
SharesLetter(e, d) ==
    \E k1 \in 1..Len(e.answer), k2 \in 1..Len(d.answer) :
       /\ EntryRow(e, k1) = EntryRow(d, k2)
       /\ EntryCol(e, k1) = EntryCol(d, k2)
       /\ e.answer[k1] = d.answer[k2]

\* C18: intersection requirement: in every attempt every word placed after
\* the seed shares a cell, holding the same letter, with a word placed
\* earlier in the attempt, and at every step of the attempt the filled cells
\* of the scratch grid are one 4-connected region.
C18_Intersections ==
    pc = "place" =>
       /\ \A k \in 2..Len(entries) : \E j \in 1..(k - 1) : SharesLetter(entries[k], entries[j])
       /\ Connected(FilledCells(grid))

\* an attempt has placed three words, and the third crosses the second but
\* not the seed
C18_Witness ==
    /\ pc = "place"
    /\ Len(entries) >= 3
    /\ SharesLetter(entries[3], entries[2])
    /\ ~SharesLetter(entries[3], entries[1])

----------------------------------------------------------------------------
(* The attempt loop *)

\* C19: early exit: once an attempt has placed every candidate no later
\* attempt is started; if no attempt does so, exactly 3 attempts are run.
C19_EarlyExit ==
    /\ \A k \in 1..Len(attemptLog) :
          attemptLog[k].placedWords = Len(words) =>
             /\ k = Len(attemptLog)
             /\ pc \in {"finish", "done"}
    /\ (/\ pc = "done"
        /\ Len(words) >= 3
        /\ \A rec \in LogRecords : rec.placedWords # Len(words))
       => /\ Len(attemptLog) = 3
          /\ {rec.attempt : rec \in LogRecords} = {0, 1, 2}

\* the call ended after its second attempt, which placed every candidate
C19_Witness ==
    /\ pc = "done"
    /\ Len(attemptLog) = 2
    /\ attemptLog[2].placedWords = Len(words)
    /\ attemptLog[1].placedWords < Len(words)

\* the cells entry e covers
EntryCells(e) == {<<EntryRow(e, n), EntryCol(e, n)>> : n \in 1..Len(e.answer)}

\* s and t hold the same elements the same number of times
SameElements(s, t) ==
    /\ Len(s) = Len(t)
    /\ \A x \in {s[k] : k \in 1..Len(s)} \cup {t[k] : k \in 1..Len(t)} :
          Cardinality({k \in 1..Len(s) : s[k] = x}) = Cardinality({k \in 1..Len(t) : t[k] = x})

\* while an attempt places words: its grid has 30 rows of 30 cells (the row of
\* an across seed may be longer), the letters in it are the letters of the
\* attempt's own entries, the first of which is the seed at the attempt's
\* starting position, and the words it tries are all candidates but the seed
IsolatedAttempt ==
    pc = "place" =>
       /\ Len(grid) = 30
       /\ \A r \in 1..30 : Len(grid[r]) = 30 \/ r = entries[1].position.row + 1
       /\ FilledCells(grid) = UNION {EntryCells(entries[k]) : k \in 1..Len(entries)}
       /\ Len(entries) = placedWords
       /\ entries[1].answer = words[1].word
       /\ entries[1].position = startingPositions[(attempt % 3) + 1]
       /\ i = 0 => Len(entries) = 1
       /\ SameElements(remainingWords, Tail(words))

\* a step changes the best result only to the result of an attempt with a
\* strictly higher score
BestOnlyImproves ==
    bestCrossword' # bestCrossword =>
       /\ HigherScore(bestScore', bestScore)
       /\ bestScore' = attemptLog'[Len(attemptLog')].score

\* C20: attempt isolation: every attempt starts from an all-empty 30x30
\* scratch grid and an empty entry list, so that no letter or entry of an
\* earlier attempt is present in a later one; a word skipped in one attempt is
\* tried again in every later attempt; and the best result recorded so far is
\* changed by a later attempt only when that attempt scores strictly higher.
C20_AttemptIsolation == []IsolatedAttempt /\ [][BestOnlyImproves]_vars

\* a later attempt starts with only its seed in the grid after an earlier
\* attempt skipped a word and recorded a best result
C20_Witness ==
    /\ pc = "place"
    /\ attempt > 0
    /\ i = 0
    /\ bestCrossword # Null
    /\ \E rec \in LogRecords : rec.placedWords >= 3 /\ rec.placedWords < Len(words)

----------------------------------------------------------------------------
(* The seed word *)

\* the words that pass the filter, in input order
Survivors == filterWords(mapWords(questions))

\* the first of the longest words that pass the filter
LongestCandidate ==
    LET ws == Survivors
        k == CHOOSE n \in 1..Len(ws) :
                /\ \A m \in 1..Len(ws) : Len(ws[m].word) <= Len(ws[n].word)
                /\ \A m \in 1..(n - 1) : Len(ws[m].word) < Len(ws[n].word)
    IN ws[k]

\* the direction of the seed of attempt a
SeedDirection(a) == IF a % 2 = 0 THEN "across" ELSE "down"

\* entry e is the longest candidate at the seed coordinate of attempt a
IsSeedOf(e, a) ==
    /\ e.answer = LongestCandidate.word
    /\ e.clue = LongestCandidate.question
    /\ e.position = startingPositions[(a % 3) + 1]
    /\ e.direction = SeedDirection(a)

----------------------------------------------------------------------------
(* Entry numbers *)

StartPositions == {e.position : e \in ResultEntries}

\* C22: contiguous numbering: in every successful result the set of entry
\* numbers is exactly 1..k, where k is the number of distinct positions at which
\* entries start, and the entries at the row-major-first position have number 1.
C22_ContiguousNumbers ==
    Success =>
       /\ {e.number : e \in ResultEntries} = 1..Cardinality(StartPositions)
       /\ \A e \in ResultEntries :
             (\A p \in StartPositions : p = e.position \/ RowMajorBefore(e.position, p))
                => e.number = 1

\* a successful result in which two entries start in one cell and another entry
\* starts in a later cell, so that there are fewer numbers than entries
C22_Witness ==
    /\ Success
    /\ Cardinality(StartPositions) < Cardinality(ResultEntries)
    /\ \E e1, e2, e3 \in ResultEntries :
          /\ e1 # e2
          /\ e1.position = e2.position
          /\ RowMajorBefore(e1.position, e3.position)

----------------------------------------------------------------------------
(* Clues *)

\* an input record with this clue text whose cleaned answer is this word
FromInput(clue, word) ==
    \E k \in 1..Len(questions) :
       /\ questions[k].question = clue
       /\ cleanAnswer(questions[k].answer) = word

\* C23: clue preservation: every entry of a successful result carries the clue
\* text of an input record whose cleaned answer is the entry's answer, and so
\* does every candidate, every word of a shuffled attempt and every entry of
\* the scratch list on the way to it.
C23_CluePreserved ==
    /\ \A k \in 1..Len(words) : FromInput(words[k].question, words[k].word)
    /\ \A k \in 1..Len(remainingWords) :
          FromInput(remainingWords[k].question, remainingWords[k].word)
    /\ \A k \in 1..Len(entries) : FromInput(entries[k].clue, entries[k].answer)
    /\ Success => \A e \in ResultEntries : FromInput(e.clue, e.answer)

\* a successful result built from a shuffled attempt, with an entry whose input
\* answer was changed by the cleaning and whose record is not the first
C23_Witness ==
    /\ Success
    /\ bestScratch.attempt > 0
    /\ \E e \in ResultEntries : \E k \in 2..Len(questions) :
          /\ questions[k].question = e.clue
          /\ questions[k].answer # e.answer
          /\ cleanAnswer(questions[k].answer) = e.answer

----------------------------------------------------------------------------
(* Cleaning of one answer *)

\* the longest answer string that is cleaned
MaxAnswerLen == 3

\* the characters of the answer strings: letters of both cases, a digit, a
\* hyphen and a space
AnswerChars == {"j", "J", "z", "Z", "1", "-", " "}

AnswerStrings == UNION {[1..n -> AnswerChars] : n \in 0..MaxAnswerLen}

InitClean == \E a \in AnswerStrings : Start(<<[question |-> "q1", answer |-> a]>>)

\* line 234-238 on the one record
Clean ==
    /\ pc = "start"
    /\ words' = mapWords(questions)
    /\ pc' = "cleaned"
    /\ UNCHANGED <<questions, attempt, grid, entries, usedWords, placedWords,
                   remainingWords, i, bestCrossword, bestScore, outcome, returned,
                   thrown, attemptLog, bestScratch, earlier>>

\* the same lines on a record whose answer is the word just cleaned
CleanAgain ==
    /\ pc = "cleaned"
    /\ words' = words \o mapWords(<<[question |-> "q2", answer |-> words[1].word]>>)
    /\ pc' = "done"
    /\ UNCHANGED <<questions, attempt, grid, entries, usedWords, placedWords,
                   remainingWords, i, bestCrossword, bestScore, outcome, returned,
                   thrown, attemptLog, bestScratch, earlier>>

NextClean == Clean \/ CleanAgain

SpecClean == InitClean /\ [][NextClean]_vars

IsLowerLetter(ch) == \E k \in 1..26 : Lower[k] = ch
IsUpperLetter(ch) == \E k \in 1..26 : Upper[k] = ch
IsLetter(ch) == IsLowerLetter(ch) \/ IsUpperLetter(ch)

\* the capital of a letter
Capital(ch) ==
    IF IsLowerLetter(ch) THEN Upper[CHOOSE k \in 1..26 : Lower[k] = ch] ELSE ch

\* a letter in the other case, any other character itself
OtherCase(ch) ==
    IF IsLowerLetter(ch) THEN Upper[CHOOSE k \in 1..26 : Lower[k] = ch]
    ELSE IF IsUpperLetter(ch) THEN Lower[CHOOSE k \in 1..26 : Upper[k] = ch]
    ELSE ch

\* the letters of s, in their order, as capitals
CapitalLetters(s) ==
    LET letters == SelectSeq(s, IsLetter)
    IN [k \in 1..Len(letters) |-> Capital(letters[k])]

\* the strings that differ from s only in the case of letters
CaseVariants(s) ==
    {t \in [1..Len(s) -> AnswerChars \cup {OtherCase(ch) : ch \in AnswerChars}] :
        \A k \in 1..Len(s) : t[k] \in {s[k], OtherCase(s[k])}}

\* C24: answer cleaning: the candidate word of a record is the record's answer
\* with its letters (a-z, A-Z) uppercased and every other character removed, in
\* the original order; every answer that differs only in the case of letters
\* gives the same word; and cleaning the cleaned word returns it unchanged.
C24_AnswerCleaning ==
    /\ Len(words) >= 1 =>
          /\ words[1].word = CapitalLetters(questions[1].answer)
          /\ \A t \in CaseVariants(questions[1].answer) : cleanAnswer(t) = words[1].word
    /\ Len(words) = 2 => words[2].word = words[1].word

\* an answer of a lower-case letter, a capital and another character has been
\* cleaned twice
C24_Witness ==
    /\ pc = "done"
    /\ Len(words) = 2
    /\ Len(questions[1].answer) = 3
    /\ Len(words[1].word) = 2
    /\ \E k \in 1..3 : IsLowerLetter(questions[1].answer[k])
    /\ \E k \in 1..3 : IsUpperLetter(questions[1].answer[k])

----------------------------------------------------------------------------
(* Termination *)

\* the position of the call in the code
control == <<pc, attempt, i>>

\* the control flow of buildCrossword: what each action does to the position
Control ==
    \/ /\ pc = "start"
       /\ pc' \in {"attempt", "done"}
       /\ UNCHANGED <<attempt, i>>
    \/ /\ pc = "attempt"
       /\ attempt < attempts
       /\ i' = 0
       /\ \/ pc' = "place" /\ attempt' = attempt
          \/ pc' = "attempt" /\ attempt' = attempt + 1
    \/ /\ pc = "place"
       /\ i < Len(remainingWords)
       /\ i' = i + 1
       /\ UNCHANGED <<pc, attempt>>
    \/ /\ pc = "place"
       /\ i >= Len(remainingWords)
       /\ i' = 0
       /\ \/ pc' = "finish" /\ attempt' = attempt
          \/ pc' = "attempt" /\ attempt' = attempt + 1
    \/ /\ \/ pc = "finish"
          \/ pc = "attempt" /\ attempt >= attempts
       /\ pc' = "done"
       /\ UNCHANGED <<attempt, i>>

\* buildCrossword is synchronous, single-threaded code without suspension
\* points: while the call has a next statement, control moves on
SpecLive == Spec /\ WF_control(Control)

\* every step of the call is a step of the control flow
StepsFollowControl == [][Next => Control]_vars

\* the call has ended in exactly one of the three outcomes
OneOutcome ==
    Cardinality(
       {o \in {"result", "tooFew", "layout"} :
           \/ o = "result" /\ outcome = "returned" /\ returned # Null /\ thrown = "none"
           \/ o = "tooFew" /\ outcome = "thrown" /\ returned = Null
                           /\ thrown \in TooFewMessages
           \/ o = "layout" /\ outcome = "thrown" /\ returned = Null
                           /\ thrown = LayoutFailedError}) = 1

\* at most 3 attempts run, each under its own attempt number, and the placement
\* loop of an attempt is inside its list of remaining candidates
WithinBudget ==
    /\ attempt <= 3
    /\ Len(attemptLog) <= 3
    /\ \A k1, k2 \in 1..Len(attemptLog) :
          attemptLog[k1].attempt = attemptLog[k2].attempt => k1 = k2
    /\ pc = "place" =>
          /\ attempt < 3
          /\ Len(remainingWords) = Len(words) - 1
          /\ i <= Len(remainingWords)
          /\ placedWords <= i + 1
    /\ pc = "done" => OneOutcome
    /\ pc # "done" => outcome = "running"

\* a step inside an attempt moves on to the next remaining candidate, and no
\* step goes back to an earlier attempt
OnlyForward ==
    /\ (pc = "place" /\ pc' = "place") => (i' = i + 1 /\ attempt' = attempt)
    /\ attempt' >= attempt
    /\ pc = "done" => pc' = "done"

\* C25: termination: every call of buildCrossword eventually ends, in exactly
\* one of three outcomes (a result, the too-few-valid-words error, or the
\* layout-construction error), after at most 3 attempts, each of which considers
\* each remaining candidate at most once.
C25_Termination ==
    /\ <>(pc = "done")
    /\ []WithinBudget
    /\ [][OnlyForward]_vars

\* a call ended with a result after all 3 attempts, the last of which
\* considered every remaining candidate
C25_Witness ==
    /\ pc = "done"
    /\ Success
    /\ Len(attemptLog) = 3
    /\ ~attemptLog[3].threw
    /\ attemptLog[3].placedWords < Len(words)

----------------------------------------------------------------------------
(* Word count and score *)

\* five words that cross each other and six that share no letter with them
WordCountQuestions ==
    << [question |-> "w1", answer |-> <<"R","E","S","T">>],
       [question |-> "w2", answer |-> <<"S","T","A","T","E">>],
       [question |-> "w3", answer |-> <<"C","R","A","T","E">>],
       [question |-> "w4", answer |-> <<"S","E","T">>],
       [question |-> "w5", answer |-> <<"L","I","E">>],
       [question |-> "w6", answer |-> <<"H","U","M">>],
       [question |-> "w7", answer |-> <<"M","O","B">>],
       [question |-> "w8", answer |-> <<"J","O","Y">>],
       [question |-> "w9", answer |-> <<"B","U","D">>],
       [question |-> "w10", answer |-> <<"F","O","G">>],
       [question |-> "w11", answer |-> <<"P","U","B">>] >>

\* the number of leading swaps of the Fisher-Yates loop that are drawn freely
MaxFreeDraws == 3

\* the draws of a shuffle of n words that moves only the first MaxFreeDraws + 1
\* of them: loop index k above MaxFreeDraws draws k itself
LeadingDraws(n) ==
    {[k \in 1..(n - 1) |-> IF k <= MaxFreeDraws THEN f[k] ELSE k] :
        f \in {g \in [1..MaxFreeDraws -> 0..MaxFreeDraws] :
                  \A k \in 1..MaxFreeDraws : g[k] <= k}}

InitWordCount == Start(WordCountQuestions)

\* lines 274-324 with the random numbers of the shuffle taken from LeadingDraws
StartAttemptLeadingDraws ==
    /\ pc = "attempt"
    /\ attempt < attempts
    /\ LET position == startingPositions[(attempt % Len(startingPositions)) + 1]
           emptyGrid == initializeEmptyGrid(GridRows, GridCols)
           firstWordData == words[1]
           firstEntry == [answer |-> firstWordData.word,
                          clue |-> firstWordData.question,
                          position |-> [row |-> position.row, col |-> position.col],
                          direction |-> IF attempt % 2 = 0 THEN "across" ELSE "down",
                          number |-> 1]
           placement == [row |-> position.row, col |-> position.col,
                         direction |-> firstEntry.direction]
           sliced == SubSeq(words, 2, Len(words))
       IN /\ ~placeWordThrows(emptyGrid, firstWordData.word, placement)
          /\ grid' = placeWordInGrid(emptyGrid, firstWordData.word, placement)
          /\ entries' = <<firstEntry>>
          /\ usedWords' = {firstWordData.word}
          /\ placedWords' = 1
          /\ IF shuffles(attempt)
             THEN \E draws \in LeadingDraws(Len(sliced)) :
                     remainingWords' = shuffle(sliced, Len(sliced) - 1, draws)
             ELSE remainingWords' = sliced
          /\ i' = 0
          /\ pc' = "place"
    /\ UNCHANGED <<questions, words, attempt, bestCrossword, bestScore, outcome,
                   returned, thrown, attemptLog, bestScratch, earlier>>

NextWordCount == Preprocess \/ StartAttemptLeadingDraws \/ TryPlace \/ EndAttempt \/ Finish

\* calls of buildCrossword(WordCountQuestions) in which the shuffles leave the
\* six words that cannot be placed at the end of the list
SpecWordCount == InitWordCount /\ [][NextWordCount]_vars

\* the largest number of words an attempt of the call placed
MostPlaced == SetMax({0} \cup {rec.placedWords : rec \in LogRecords})

\* C26: word count wins: the returned result has as many entries as the largest
\* number of words placed by any attempt that ran; if an attempt placed every
\* candidate, the result holds every candidate.
C26_WordCountWins ==
    Success =>
       /\ Len(returned.entries) = MostPlaced
       /\ (\E rec \in LogRecords : rec.placedWords = Len(words))
             => Len(returned.entries) = Len(words)

----------------------------------------------------------------------------
(* Writes to the scratch grid *)

\* C27: in-bounds writes: every letter written to the scratch grid in any
\* attempt, the seed included, is written inside the 30 x 30 grid: no row of the
\* scratch grid grows beyond 30 cells, and no attempt ends in the TypeError of
\* a write to a row that does not exist.
C27_InBoundsWrites ==
    /\ pc = "place" =>
          /\ Len(grid) = 30
          /\ \A r \in 1..Len(grid) : Len(grid[r]) = 30
          /\ \A e \in {entries[k] : k \in 1..Len(entries)} :
                \A n \in 1..Len(e.answer) :
                   /\ EntryRow(e, n) \in 0..29
                   /\ EntryCol(e, n) \in 0..29
    /\ \A rec \in LogRecords : ~rec.threw

----------------------------------------------------------------------------
(* Cells of the scratch grid *)

\* the cells of grid g, as pairs of sequence indices
GridCells(g) == UNION {{<<r, c>> : c \in 1..Len(g[r])} : r \in 1..Len(g)}

\* a step inside an attempt leaves every letter of the scratch grid where it is
LettersStay ==
    (pc = "place" /\ pc' = "place") =>
       /\ GridCells(grid') = GridCells(grid)
       /\ \A rc \in GridCells(grid) :
             grid[rc[1]][rc[2]] # Empty => grid'[rc[1]][rc[2]] = grid[rc[1]][rc[2]]

\* C28: write-once cells: within one attempt, once a cell of the scratch grid
\* holds a letter, no later placement changes that cell to another letter or
\* back to empty: a placement fills empty cells or rewrites a cell with the
\* letter it holds.
C28_WriteOnce == [][LettersStay]_vars

\* a word has been placed across a letter that an earlier placement of the same
\* attempt wrote: the entry shares a cell with an earlier entry
C28_Witness ==
    /\ pc = "place"
    /\ Len(entries) >= 3
    /\ \E k \in 2..Len(entries) : \E m \in 1..(k - 1) :
          /\ entries[k].direction = "down"
          /\ EntryCells(entries[k]) \cap EntryCells(entries[m]) # {}

----------------------------------------------------------------------------
(* The two validity checks *)

\* the side of the square grids the two checks are compared on
MirrorSize == 3

\* the largest number of letters in such a grid
MaxGridLetters == 2

MirrorLetters == {"A", "B"}

MirrorWords == {<<"A", "B">>, <<"B", "A", "B">>, <<"A", "A", "B", "A">>,
                <<"B", "A", "A", "B", "A">>}

\* the square grids that hold at most k letters
RECURSIVE GridsWith(_)
GridsWith(k) ==
    IF k = 0 THEN {initializeEmptyGrid(MirrorSize, MirrorSize)}
    ELSE LET fewer == GridsWith(k - 1)
         IN fewer \cup
            UNION {{[g EXCEPT ![rc[1]][rc[2]] = ch] :
                       rc \in {p \in GridCells(g) : g[p[1]][p[2]] = Empty},
                       ch \in MirrorLetters} : g \in fewer}

MirrorGrids == GridsWith(MaxGridLetters)

transpose(g) == [c \in 1..NumCols(g) |-> [r \in 1..NumRows(g) |-> g[r][c]]]

\* a grid and a word to be checked at every cell of the grid
InitMirror ==
    \E g \in MirrorGrids : \E w \in MirrorWords :
       /\ questions = <<>>
       /\ pc = "mirror"
       /\ words = <<[word |-> w, question |-> "q1", originalAnswer |-> w]>>
       /\ attempt = 0
       /\ grid = g
       /\ entries = <<>>
       /\ usedWords = {}
       /\ placedWords = 0
       /\ remainingWords = <<>>
       /\ i = 0
       /\ bestCrossword = Null
       /\ bestScore = NoScore
       /\ outcome = "running"
       /\ returned = Null
       /\ thrown = "none"
       /\ attemptLog = <<>>
       /\ bestScratch = Null
       /\ earlier = Null

\* both checks at every cell: down on the grid, across on the transposed grid
\* at the mirrored cell
CheckBoth ==
    /\ pc = "mirror"
    /\ entries' = [rc \in (0..(NumRows(grid) - 1)) \X (0..(NumCols(grid) - 1)) |->
                      [down |-> canPlaceWordVertically(grid, words[1].word, rc[1], rc[2]),
                       across |-> canPlaceWordHorizontally(transpose(grid), words[1].word,
                                                           rc[2], rc[1])]]
    /\ pc' = "mirrored"
    /\ UNCHANGED <<questions, words, attempt, grid, usedWords, placedWords,
                   remainingWords, i, bestCrossword, bestScore, outcome, returned,
                   thrown, attemptLog, bestScratch, earlier>>

SpecMirror == InitMirror /\ [][CheckBoth]_vars

\* C29: the across and down validity checks are mirror images: for a square
\* grid G, a word w and a cell (r, c), canPlaceWordVertically(G, w, r, c) returns
\* the same canPlace flag and the same intersection count as
\* canPlaceWordHorizontally(transpose(G), w, c, r).
C29_MirrorChecks ==
    pc = "mirrored" =>
       \A rc \in DOMAIN entries :
          /\ entries[rc].down.canPlace = entries[rc].across.canPlace
          /\ entries[rc].down.intersections = entries[rc].across.intersections

\* a grid with two letters on which the word can be placed down at one cell,
\* and is rejected at another cell although it meets its own letter there
C29_Witness ==
    /\ pc = "mirrored"
    /\ Cardinality({rc \in GridCells(grid) : grid[rc[1]][rc[2]] # Empty}) = 2
    /\ \E rc \in DOMAIN entries :
          entries[rc].down.canPlace /\ entries[rc].down.intersections >= 1
    /\ \E rc \in DOMAIN entries :
          /\ ~entries[rc].down.canPlace
          /\ rc[1] + Len(words[1].word) <= MirrorSize
          /\ \E k \in 1..Len(words[1].word) :
                Cell(grid, rc[1] + k - 1, rc[2]) = words[1].word[k]

----------------------------------------------------------------------------
(* The first attempt *)

\* the placement loop of lines 327-347 over the words ws from index k on
RECURSIVE placeInOrder(_, _, _, _, _)
placeInOrder(g, es, used, ws, k) ==
    IF k > Len(ws) THEN [grid |-> g, entries |-> es]
    ELSE LET wordData == ws[k]
             placement == findBestPlacement(g, wordData.word)
         IN IF wordData.word \in used THEN placeInOrder(g, es, used, ws, k + 1)
            ELSE IF placement = Null THEN placeInOrder(g, es, used, ws, k + 1)
            ELSE placeInOrder(placeWordInGrid(g, wordData.word, placement),
                              Append(es, [answer |-> wordData.word,
                                          clue |-> wordData.question,
                                          position |-> [row |-> placement.row,
                                                        col |-> placement.col],
                                          direction |-> placement.direction,
                                          number |-> Len(es) + 1]),
                              used \cup {wordData.word}, ws, k + 1)

\* what attempt 0 builds from the input alone: the seed across at (10,10), the
\* other candidates in sorted order, then trimming, adjusting and numbering
FirstAttemptResult ==
    LET ws == sortWords(Survivors)
        seed == [answer |-> ws[1].word, clue |-> ws[1].question,
                 position |-> startingPositions[1], direction |-> "across",
                 number |-> 1]
        seeded == placeWordInGrid(initializeEmptyGrid(GridRows, GridCols), ws[1].word,
                                  [row |-> startingPositions[1].row,
                                   col |-> startingPositions[1].col,
                                   direction |-> "across"])
        final == placeInOrder(seeded, <<seed>>, {ws[1].word}, Tail(ws), 1)
        trimmed == trimGrid(final.grid)
    IN [grid |-> trimmed,
        entries |-> numberEntries(adjustEntryPositions(final.entries, final.grid, trimmed))]

\* attempt 0 has ended with every candidate placed
FirstPlacedAll ==
    /\ Len(attemptLog) >= 1
    /\ attemptLog[1].attempt = 0
    /\ attemptLog[1].placedWords = Len(words)

\* C30: deterministic first attempt: attempt 0 uses no randomness (seed at
\* (10,10), across, the other candidates in sorted order), and whenever it
\* places every candidate the call returns its layout, which is determined by
\* the input alone, whatever the random numbers of the shuffle are.
C30_FirstAttemptDeterministic ==
    /\ (pc = "place" /\ attempt = 0) =>
          /\ remainingWords = Tail(words)
          /\ entries[1].position = [row |-> 10, col |-> 10]
          /\ entries[1].direction = "across"
    /\ FirstPlacedAll =>
          /\ Len(attemptLog) = 1
          /\ pc \in {"finish", "done"}
          /\ bestScratch.attempt = 0
          /\ pc = "done" => (Success /\ returned = FirstAttemptResult)

\* a call returned after a first attempt that placed all of four or more
\* candidates
C30_Witness ==
    /\ pc = "done"
    /\ Success
    /\ FirstPlacedAll
    /\ Len(words) >= 4

====
